---- MODULE Spec2Model ----
(***************************************************************************)
(* AU2 context-compression middleware (src/middlewares/au2_compression.py) *)
(* as a state machine: the host builds one AU2CompressionMiddleware,       *)
(* appends messages to state["messages"] and calls before_model /          *)
(* abefore_model before each model turn.                                   *)
(*                                                                         *)
(* Conventions                                                             *)
(*   - Python's None is the empty tuple, a present value v is <<v>>.       *)
(*   - A ContextSize is <<kind, value>>; a fraction f is carried as the    *)
(*     integer percentage 100*f, so int(x * f) is Trunc(x * value, 100).   *)
(*   - Operators keep Python's 0-based indices; At(s, i) is s[i].          *)
(*   - A function that can return a value, None or raise returns one of    *)
(*     Value(v), ReturnsNone, TypeError.                                   *)
(***************************************************************************)
EXTENDS Integers, Sequences, FiniteSets, TLC

VARIABLES
    args,       \* the constructor arguments the host passes to __init__
    mw,         \* the AU2CompressionMiddleware instance (self), once built
    messages,   \* state["messages"], owned by the host's turn loop
    pc,         \* "new" | "failed" | "idle" | "summarizing"
    frame,      \* locals of the before_model call waiting on the model
    last        \* what the latest before_model call was given and returned

vars == <<args, mw, messages, pc, frame, last>>

----------------------------------------------------------------------------
(* Bounds of the model *)

MaxLen == 4

----------------------------------------------------------------------------
(* Module constants *)

_DEFAULT_MESSAGES_TO_KEEP == 5
_DEFAULT_TRIM_TOKEN_LIMIT == 8192
_SEARCH_RANGE_FOR_TOOL_PAIRS == 5
AU2_SUMMARY_PREFIX == "[AU2 Context Summary]"

----------------------------------------------------------------------------
(* Python values *)

None == <<>>
Some(v) == <<v>>
IsNone(o) == o = <<>>
Get(o) == o[1]

Value(v) == [kind |-> "value", v |-> v]
ReturnsNone == [kind |-> "None", v |-> 0]
TypeError == [kind |-> "TypeError", v |-> 0]

Max(a, b) == IF a >= b THEN a ELSE b
Min(a, b) == IF a <= b THEN a ELSE b

\* int(x / d) for d > 0: Python's int() truncates toward zero
Trunc(x, d) == IF x >= 0 THEN x \div d ELSE -((-x) \div d)

At(s, i) == s[i + 1]
\* s[a:b] for 0 <= a, b <= len(s)
Slice(s, a, b) == IF a >= b THEN <<>> ELSE SubSeq(s, a + 1, b)
\* s[a:]
From(s, a) == Slice(s, a, Len(s))

----------------------------------------------------------------------------
(* Messages *)

\* role: SystemMessage "system", HumanMessage "user", AIMessage "assistant",
\* ToolMessage "tool".  tok is what the token counter counts for the message.
Msg(role, id, content, tok, tool_calls, tool_call_id, usage_metadata, response_usage) ==
    [role |-> role, id |-> id, content |-> content, tok |-> tok,
     tool_calls |-> tool_calls, tool_call_id |-> tool_call_id,
     usage_metadata |-> usage_metadata, response_usage |-> response_usage]

SystemMessage(content) == Msg("system", None, content, 1, {}, None, None, None)

\* Messages the host appends already carry an id
HostSystem == Msg("system", Some("id"), <<"system prompt">>, 2, {}, None, None, None)
HumanMessage == Msg("user", Some("id"), <<"text">>, 2, {}, None, None, None)
AIUsage(total) == Msg("assistant", Some("id"), <<"text">>, 1, {}, None, Some(total), None)
AIToolCall(call) == Msg("assistant", Some("id"), <<"text">>, 1, {call}, None, None, None)
ToolMessage(call) == Msg("tool", Some("id"), <<"text">>, 2, {}, Some(call), None, None)

\* an AIMessage whose total is in response_metadata["token_usage"] only
AIResponseUsage(total) == Msg("assistant", Some("id"), <<"text">>, 1, {}, None, None, Some(total))
\* an AIMessage whose usage_metadata is present with total_tokens 0, beside a
\* response_metadata total
AIZeroUsage(total) == Msg("assistant", Some("id"), <<"text">>, 1, {}, None, Some(0), Some(total))
\* a message that is no AIMessage and carries a response_metadata total
HumanUsage(total) == Msg("user", Some("id"), <<"text">>, 2, {}, None, None, Some(total))

\* ids of tool calls and provider-reported totals the host's turns draw from
CallIds == {1, 2}
UsageTotals == {9}

\* token_counter (default count_tokens_approximately): a per-message count, summed
RECURSIVE token_counter(_)
token_counter(ms) ==
    IF ms = <<>> THEN 0 ELSE Head(ms).tok + token_counter(Tail(ms))

----------------------------------------------------------------------------
(* Construction *)

NoInstance == [built |-> FALSE]

\* _validate_context_size letting the fraction 0 through (0 <= value <= 1)
_validate_context_size_mut(context) ==
    LET kind == context[1]
        value == context[2]
    IN  IF kind = "fraction" THEN 0 <= value /\ value <= 100
        ELSE IF kind \in {"tokens", "messages"} THEN value > 0
        ELSE FALSE

\* TRUE when the context size is returned, FALSE when ValueError is raised
_validate_context_size(context) ==
    LET kind == context[1]
        value == context[2]
    IN  IF kind = "fraction" THEN 0 < value /\ value <= 100
        ELSE IF kind \in {"tokens", "messages"} THEN value > 0
        ELSE FALSE

\* self with max_context_window as _get_context_length leaves it
CacheContextLength(self) ==
    IF ~IsNone(self.max_context_window) THEN self
    ELSE IF self.model.profile.kind # "mapping" THEN self
    ELSE [self EXCEPT !.max_context_window = self.model.profile.max_input_tokens]

_get_context_length(self) == CacheContextLength(self).max_context_window

\* self with max_output_tokens as _get_max_output leaves it
CacheMaxOutput(self) ==
    IF ~IsNone(self.max_output_tokens) THEN self
    ELSE IF self.model.profile.kind # "mapping" THEN self
    ELSE [self EXCEPT !.max_output_tokens = self.model.profile.max_output_tokens]

_get_max_output(self) == CacheMaxOutput(self).max_output_tokens

\* trigger is [form |-> "none" | "single" | "list", items |-> <<ContextSize...>>]
TriggerConditions(trigger) == IF trigger.form = "none" THEN <<>> ELSE trigger.items

\* the instance as __init__ has assigned it before the profile check
Assigned(a) ==
    [built |-> TRUE,
     model |-> a.model,
     max_context_window |-> a.max_context_window,
     max_output_tokens |-> a.max_output_tokens,
     trim_tokens_to_summarize |-> a.trim_tokens_to_summarize,
     _trigger_conditions |-> TriggerConditions(a.trigger),
     keep |-> a.keep]

requires_profile(self) ==
    \/ \E i \in 1..Len(self._trigger_conditions) : self._trigger_conditions[i][1] = "fraction"
    \/ self.keep[1] = "fraction"

\* TRUE when __init__ returns, FALSE when it raises ValueError
InitSucceeds(a) ==
    /\ \A i \in 1..Len(TriggerConditions(a.trigger)) :
           _validate_context_size(TriggerConditions(a.trigger)[i])
    /\ _validate_context_size(a.keep)
    /\ ~(requires_profile(Assigned(a)) /\ IsNone(_get_context_length(Assigned(a))))

\* the instance __init__ leaves behind when it returns
Constructed(a) ==
    IF requires_profile(Assigned(a)) THEN CacheContextLength(Assigned(a)) ELSE Assigned(a)

NoCall ==
    [ret |-> "none", mode |-> "none", outcome |-> "none", input |-> <<>>,
     cutoff_index |-> 0, messages_to_summarize |-> <<>>, preserved_messages |-> <<>>,
     original_system |-> None, new_messages |-> <<>>]

NoFrame == [mode |-> "none"]

Construct ==
    /\ pc = "new"
    /\ IF InitSucceeds(args)
       THEN mw' = Constructed(args) /\ pc' = "idle"
       ELSE mw' = NoInstance /\ pc' = "failed"
    /\ UNCHANGED <<args, messages, frame, last>>

----------------------------------------------------------------------------
(* Constructor arguments the specifications draw from *)

NoProfile == [kind |-> "absent", max_input_tokens |-> None, max_output_tokens |-> None]
NotAMapping == [kind |-> "other", max_input_tokens |-> None, max_output_tokens |-> None]
Profile(i, o) == [kind |-> "mapping", max_input_tokens |-> i, max_output_tokens |-> o]

Args(trigger, keep, mcw, mot, trim, profile) ==
    [model |-> [profile |-> profile], trigger |-> trigger, keep |-> keep,
     max_context_window |-> mcw, max_output_tokens |-> mot,
     trim_tokens_to_summarize |-> trim]

TriggerNone == [form |-> "none", items |-> <<>>]
TriggerSingle(c) == [form |-> "single", items |-> <<c>>]
TriggerList(cs) == [form |-> "list", items |-> cs]

----------------------------------------------------------------------------
(* Token usage *)

\* usage["total"] as _extract_usage_from_message returns it
_extract_usage_from_message(message) ==
    IF ~IsNone(message.usage_metadata) THEN Get(message.usage_metadata)
    ELSE IF ~IsNone(message.response_usage) THEN Get(message.response_usage)
    ELSE 0

\* the backward scan of _get_current_token_usage from index i down to 0
RECURSIVE ScanUsage(_, _)
ScanUsage(ms, i) ==
    IF i < 0 THEN token_counter(ms)
    ELSE IF At(ms, i).role = "assistant" /\ _extract_usage_from_message(At(ms, i)) > 0
         THEN _extract_usage_from_message(At(ms, i))
         ELSE ScanUsage(ms, i - 1)

\* a tracker that looks at the newest message only
_get_current_token_usage_mut(ms) ==
    IF ms # <<>> /\ At(ms, Len(ms) - 1).role = "assistant"
          /\ _extract_usage_from_message(At(ms, Len(ms) - 1)) > 0
    THEN _extract_usage_from_message(At(ms, Len(ms) - 1))
    ELSE token_counter(ms)

_get_current_token_usage(ms) == ScanUsage(ms, Len(ms) - 1)

----------------------------------------------------------------------------
(* Trigger *)

\* a condition that compares the token counter's count of the conversation,
\* not the tracked total
Condition_mut(self, cond, max_output_tokens, ms, total_tokens) ==
    LET kind == cond[1]
        value == cond[2]
        counted == token_counter(ms)
    IN  IF kind = "messages"
        THEN IF Len(ms) >= value THEN "True" ELSE "next"
        ELSE IF kind = "tokens"
        THEN IF IsNone(max_output_tokens) THEN "TypeError"
             ELSE LET available == value - Get(max_output_tokens)
                  IN  IF available > 0 /\ counted >= available THEN "True" ELSE "next"
        ELSE IF kind = "fraction"
        THEN IF IsNone(_get_context_length(self)) THEN "next"
             ELSE IF IsNone(max_output_tokens) THEN "TypeError"
             ELSE LET available == Get(_get_context_length(self)) - Get(max_output_tokens)
                      threshold == Trunc(available * value, 100)
                  IN  IF counted >= (IF threshold <= 0 THEN 1 ELSE threshold)
                      THEN "True" ELSE "next"
        ELSE "next"

\* One trigger condition, given max_output_tokens as _get_max_output returned it:
\* "True" (return True), "next" (fall through to the next condition) or
\* "TypeError" (int - None)
Condition(self, cond, max_output_tokens, ms, total_tokens) ==
    LET kind == cond[1]
        value == cond[2]
    IN  IF kind = "messages"
        THEN IF Len(ms) >= value THEN "True" ELSE "next"
        ELSE IF kind = "tokens"
        THEN IF IsNone(max_output_tokens) THEN "TypeError"
             ELSE LET available == value - Get(max_output_tokens)
                  IN  IF available > 0 /\ total_tokens >= available THEN "True" ELSE "next"
        ELSE IF kind = "fraction"
        THEN IF IsNone(_get_context_length(self)) THEN "next"
             ELSE IF IsNone(max_output_tokens) THEN "TypeError"
             ELSE LET available == Get(_get_context_length(self)) - Get(max_output_tokens)
                      threshold == Trunc(available * value, 100)
                  IN  IF total_tokens >= (IF threshold <= 0 THEN 1 ELSE threshold)
                      THEN "True" ELSE "next"
        ELSE "next"

\* the loop of _should_summarize from condition i on: the result and self as
\* the getters it called have left it
RECURSIVE ShouldLoop(_, _, _, _, _)
ShouldLoop(self, i, max_output_tokens, ms, total_tokens) ==
    IF i > Len(self._trigger_conditions) THEN [res |-> "False", self |-> self]
    ELSE LET cond == self._trigger_conditions[i]
             r == Condition(self, cond, max_output_tokens, ms, total_tokens)
             self1 == IF cond[1] = "fraction" THEN CacheContextLength(self) ELSE self
         IN  IF r = "next" THEN ShouldLoop(self1, i + 1, max_output_tokens, ms, total_tokens)
             ELSE [res |-> r, self |-> self1]

\* [res |-> "True" | "False" | "TypeError", self |-> self afterwards]
_should_summarize(self, ms, total_tokens) ==
    IF self._trigger_conditions = <<>> THEN [res |-> "False", self |-> self]
    ELSE ShouldLoop(CacheMaxOutput(self), 1, _get_max_output(self), ms, total_tokens)

----------------------------------------------------------------------------
(* Pair safety *)

_has_tool_calls(message) == message.role = "assistant" /\ message.tool_calls # {}

_extract_tool_call_ids(ai_message) == ai_message.tool_calls

\* a search for the answering tool messages from index 0 on
_cutoff_separates_tool_pair_mut(ms, ai_message_index, cutoff_index, tool_call_ids) ==
    \E j \in 0..(Len(ms) - 1) :
        /\ At(ms, j).role = "tool"
        /\ ~IsNone(At(ms, j).tool_call_id)
        /\ Get(At(ms, j).tool_call_id) \in tool_call_ids
        /\ (ai_message_index < cutoff_index) # (j < cutoff_index)

_cutoff_separates_tool_pair(ms, ai_message_index, cutoff_index, tool_call_ids) ==
    \E j \in (ai_message_index + 1)..(Len(ms) - 1) :
        /\ At(ms, j).role = "tool"
        /\ ~IsNone(At(ms, j).tool_call_id)
        /\ Get(At(ms, j).tool_call_id) \in tool_call_ids
        /\ (ai_message_index < cutoff_index) # (j < cutoff_index)

\* _is_safe_cutoff_point searching from the cutoff on only (search_start = cutoff_index)
_is_safe_cutoff_point_mut(ms, cutoff_index) ==
    IF cutoff_index >= Len(ms) THEN TRUE
    ELSE LET search_start == cutoff_index
             search_end == Min(Len(ms), cutoff_index + _SEARCH_RANGE_FOR_TOOL_PAIRS)
         IN  \A i \in search_start..(search_end - 1) :
                 _has_tool_calls(At(ms, i)) =>
                     ~_cutoff_separates_tool_pair(ms, i, cutoff_index,
                                                  _extract_tool_call_ids(At(ms, i)))

_is_safe_cutoff_point(ms, cutoff_index) ==
    IF cutoff_index >= Len(ms) THEN TRUE
    ELSE LET search_start == Max(0, cutoff_index - _SEARCH_RANGE_FOR_TOOL_PAIRS)
             search_end == Min(Len(ms), cutoff_index + _SEARCH_RANGE_FOR_TOOL_PAIRS)
         IN  \A i \in search_start..(search_end - 1) :
                 _has_tool_calls(At(ms, i)) =>
                     ~_cutoff_separates_tool_pair(ms, i, cutoff_index,
                                                  _extract_tool_call_ids(At(ms, i)))

\* for i in range(start, -1, -1): if safe(i): return i;  return 0
RECURSIVE WalkDown(_, _)
WalkDown(ms, i) ==
    IF i < 0 THEN 0
    ELSE IF _is_safe_cutoff_point(ms, i) THEN i
    ELSE WalkDown(ms, i - 1)

\* _find_safe_cutoff returning len - k without the walk
_find_safe_cutoff_mut(ms, messages_to_keep) ==
    IF Len(ms) <= messages_to_keep THEN 0
    ELSE Len(ms) - messages_to_keep

_find_safe_cutoff(ms, messages_to_keep) ==
    IF Len(ms) <= messages_to_keep THEN 0
    ELSE WalkDown(ms, Len(ms) - messages_to_keep)

----------------------------------------------------------------------------
(* Token-based cutoff *)

RECURSIVE bit_length(_)
bit_length(n) == IF n <= 0 THEN 0 ELSE 1 + bit_length(n \div 2)

\* the binary-search loop with `iterations` rounds left
RECURSIVE BinarySearch(_, _, _, _, _, _)
BinarySearch(ms, target_token_count, left, right, cutoff_candidate, iterations) ==
    IF iterations = 0 \/ left >= right
    THEN [left |-> left, right |-> right, cutoff_candidate |-> cutoff_candidate,
          iterations |-> iterations]
    ELSE LET mid == (left + right) \div 2
         IN  IF token_counter(From(ms, mid)) <= target_token_count
             THEN BinarySearch(ms, target_token_count, left, mid, mid, iterations - 1)
             ELSE BinarySearch(ms, target_token_count, mid + 1, right, cutoff_candidate,
                               iterations - 1)

\* an iteration cap without the + 1
max_iterations_mut(ms) == bit_length(Len(ms))

\* max_iterations = len(messages).bit_length() + 1
max_iterations(ms) == bit_length(Len(ms)) + 1

\* left, right, cutoff_candidate and the rounds still unused when the loop is left
SearchResult(ms, target_token_count) ==
    BinarySearch(ms, target_token_count, 0, Len(ms), Len(ms), max_iterations(ms))

\* the candidate left at len(messages) when no suffix fits
CutoffCandidate_noclamp(ms, target_token_count) ==
    LET s == SearchResult(ms, target_token_count)
    IN  IF s.cutoff_candidate = Len(ms) THEN s.left ELSE s.cutoff_candidate

\* the candidate taken one position too early
CutoffCandidate_mut(ms, target_token_count) ==
    LET s == SearchResult(ms, target_token_count)
        c1 == IF s.cutoff_candidate = Len(ms) THEN s.left ELSE s.cutoff_candidate - 1
    IN  IF c1 >= Len(ms) THEN (IF Len(ms) > 1 THEN Len(ms) - 1 ELSE 0) ELSE Max(0, c1)

\* the candidate the search and the two adjustments after it leave
CutoffCandidate(ms, target_token_count) ==
    LET s == SearchResult(ms, target_token_count)
        c1 == IF s.cutoff_candidate = Len(ms) THEN s.left ELSE s.cutoff_candidate
    IN  IF c1 >= Len(ms) THEN (IF Len(ms) > 1 THEN Len(ms) - 1 ELSE 0) ELSE c1

\* target_token_count with max_output_tokens taken off a tokens keep as well
TargetTokenCount_mut(self) ==
    LET kind == self.keep[1]
        value == self.keep[2]
        clamp(n) == IF n <= 0 THEN 1 ELSE n
    IN  IF kind = "fraction"
        THEN IF IsNone(_get_context_length(self)) THEN ReturnsNone
             ELSE IF IsNone(_get_max_output(self)) THEN TypeError
             ELSE Value(clamp(Trunc((Get(_get_context_length(self))
                                     - Get(_get_max_output(self))) * value, 100)))
        ELSE IF kind = "tokens"
        THEN IF IsNone(_get_max_output(self)) THEN TypeError
             ELSE Value(clamp(value - Get(_get_max_output(self))))
        ELSE ReturnsNone

\* target_token_count of _find_token_based_cutoff: Value(n), ReturnsNone or TypeError
TargetTokenCount(self) ==
    LET kind == self.keep[1]
        value == self.keep[2]
        clamp(n) == IF n <= 0 THEN 1 ELSE n
    IN  IF kind = "fraction"
        THEN IF IsNone(_get_context_length(self)) THEN ReturnsNone
             ELSE IF IsNone(_get_max_output(self)) THEN TypeError
             ELSE Value(clamp(Trunc((Get(_get_context_length(self))
                                     - Get(_get_max_output(self))) * value, 100)))
        ELSE IF kind = "tokens" THEN Value(clamp(value))
        ELSE ReturnsNone

\* _find_token_based_cutoff returning the candidate without the safety walk
CutoffForTarget_mut(ms, target_token_count) ==
    IF token_counter(ms) <= target_token_count THEN 0
    ELSE CutoffCandidate(ms, target_token_count)

\* the part of _find_token_based_cutoff after the target is known
CutoffForTarget(ms, target_token_count) ==
    IF token_counter(ms) <= target_token_count THEN 0
    ELSE WalkDown(ms, CutoffCandidate(ms, target_token_count))

_find_token_based_cutoff(self, ms) ==
    IF ms = <<>> THEN Value(0)
    ELSE LET t == TargetTokenCount(self)
         IN  IF t.kind # "value" THEN t ELSE Value(CutoffForTarget(ms, t.v))

\* Value(index) or TypeError
_determine_cutoff_index(self, ms) ==
    LET kind == self.keep[1]
        value == self.keep[2]
    IN  IF kind \in {"tokens", "fraction"}
        THEN LET token_based_cutoff == _find_token_based_cutoff(self, ms)
             IN  IF token_based_cutoff.kind # "None" THEN token_based_cutoff
                 ELSE Value(_find_safe_cutoff(ms, _DEFAULT_MESSAGES_TO_KEEP))
        ELSE Value(_find_safe_cutoff(ms, value))

\* self as _determine_cutoff_index leaves it
CacheAfterCutoff(self, ms) ==
    IF self.keep[1] = "fraction" /\ ms # <<>>
    THEN CacheMaxOutput(CacheContextLength(self))
    ELSE self

----------------------------------------------------------------------------
(* Partition, rendering, summary *)

\* _partition_messages without the leading-SystemMessage branch
_partition_messages_mut(ms, cutoff_index) ==
    [messages_to_summarize |-> Slice(ms, 0, cutoff_index),
     preserved_messages |-> From(ms, cutoff_index),
     original_system |-> None]

\* _partition_messages without `cutoff_index = max(start_index, cutoff_index)`
_partition_messages_noclamp(ms, cutoff_index) ==
    IF ms # <<>> /\ At(ms, 0).role = "system"
    THEN [messages_to_summarize |-> Slice(ms, 1, cutoff_index),
          preserved_messages |-> From(ms, cutoff_index),
          original_system |-> Some(At(ms, 0))]
    ELSE [messages_to_summarize |-> Slice(ms, 0, cutoff_index),
          preserved_messages |-> From(ms, cutoff_index),
          original_system |-> None]

_partition_messages(ms, cutoff_index) ==
    IF ms # <<>> /\ At(ms, 0).role = "system"
    THEN [messages_to_summarize |-> Slice(ms, 1, Max(1, cutoff_index)),
          preserved_messages |-> From(ms, Max(1, cutoff_index)),
          original_system |-> Some(At(ms, 0))]
    ELSE [messages_to_summarize |-> Slice(ms, 0, cutoff_index),
          preserved_messages |-> From(ms, cutoff_index),
          original_system |-> None]

RoleLabel(msg) ==
    IF msg.role = "user" THEN "User"
    ELSE IF msg.role = "assistant" THEN "Assistant"
    ELSE IF msg.role = "system" THEN "System"
    ELSE "Tool"

\* one entry <<i+1, role, content>> per message
_format_messages_for_compression(ms) ==
    [i \in 1..Len(ms) |-> <<i, RoleLabel(ms[i]), ms[i].content>>]

\* the loop over reversed(messages) from index i down: the selected messages
RECURSIVE SelectRecent(_, _, _, _, _)
SelectRecent(ms, i, limit, selected_messages, current_tokens) ==
    IF i < 0 THEN selected_messages
    ELSE LET msg_tokens == token_counter(<<At(ms, i)>>)
         IN  IF current_tokens + msg_tokens > limit THEN selected_messages
             ELSE SelectRecent(ms, i - 1, limit, <<At(ms, i)>> \o selected_messages,
                               current_tokens + msg_tokens)

\* _trim_messages_for_summary without `selected_messages = [messages[-1]]`
_trim_messages_for_summary_mut(self, ms) ==
    IF IsNone(self.trim_tokens_to_summarize)
    THEN [truncated |-> None, lines |-> _format_messages_for_compression(ms)]
    ELSE IF token_counter(ms) <= Get(self.trim_tokens_to_summarize)
    THEN [truncated |-> None, lines |-> _format_messages_for_compression(ms)]
    ELSE LET selected_messages ==
                 SelectRecent(ms, Len(ms) - 1, Get(self.trim_tokens_to_summarize), <<>>, 0)
         IN  IF Len(selected_messages) < Len(ms)
             THEN [truncated |-> Some(Len(ms) - Len(selected_messages)),
                   lines |-> _format_messages_for_compression(selected_messages)]
             ELSE [truncated |-> None,
                   lines |-> _format_messages_for_compression(selected_messages)]

\* [truncated |-> the count the truncation marker names, or None; lines |-> the entries]
_trim_messages_for_summary(self, ms) ==
    IF IsNone(self.trim_tokens_to_summarize)
    THEN [truncated |-> None, lines |-> _format_messages_for_compression(ms)]
    ELSE IF token_counter(ms) <= Get(self.trim_tokens_to_summarize)
    THEN [truncated |-> None, lines |-> _format_messages_for_compression(ms)]
    ELSE LET picked == SelectRecent(ms, Len(ms) - 1, Get(self.trim_tokens_to_summarize),
                                    <<>>, 0)
             selected_messages ==
                 IF picked = <<>> /\ ms # <<>> THEN <<At(ms, Len(ms) - 1)>> ELSE picked
         IN  IF Len(selected_messages) < Len(ms)
             THEN [truncated |-> Some(Len(ms) - Len(selected_messages)),
                   lines |-> _format_messages_for_compression(selected_messages)]
             ELSE [truncated |-> None,
                   lines |-> _format_messages_for_compression(selected_messages)]

NoHistory == <<"No previous conversation history.">>
CompressionFailed(e) == <<"[Compression failed:", e, "Retaining recent context only.]">>

\* how a call of model.invoke / model.ainvoke can end: a response, an error
\* raised by the call, a timeout raised by the call and, for the awaited call,
\* the cancellation of the task that awaits it
ModelOutcomes(mode) ==
    IF mode = "async" THEN {"ok", "error", "timeout", "cancelled"}
    ELSE {"ok", "error", "timeout"}

\* an except clause that names the error class but not the timeout
Caught_mut == {"error"}

\* an except clause wide enough to catch the cancellation too (except BaseException)
Caught_base == {"error", "timeout", "cancelled"}

\* the outcomes `except Exception` catches (CancelledError is no Exception)
Caught == {"error", "timeout"}

\* _create_summary / _acreate_summary on a non-empty run whose model call has
\* ended with `outcome`: Value(text), or the exception leaves the function
SummaryAfter(outcome) ==
    IF outcome = "ok" THEN Value(<<"summary">>)
    ELSE IF outcome \in Caught THEN Value(CompressionFailed(outcome))
    ELSE [kind |-> outcome, v |-> <<>>]

_build_new_messages(summary) == <<SystemMessage(<<AU2_SUMMARY_PREFIX>> \o summary)>>

\* new_messages with the summary message put in front of the system prompt
NewMessages_mut(original_system, summary, preserved_messages) ==
    _build_new_messages(summary)
        \o (IF IsNone(original_system) THEN <<>> ELSE <<Get(original_system)>>)
        \o preserved_messages

\* before_model's new_messages
NewMessages(original_system, summary, preserved_messages) ==
    (IF IsNone(original_system) THEN <<>> ELSE <<Get(original_system)>>)
        \o _build_new_messages(summary) \o preserved_messages

_ensure_message_ids(ms) ==
    [i \in 1..Len(ms) |-> IF IsNone(ms[i].id) THEN [ms[i] EXCEPT !.id = Some("id")] ELSE ms[i]]

----------------------------------------------------------------------------
(* The host's turns *)

Issued(ms, call) == \E i \in 1..Len(ms) : call \in ms[i].tool_calls
Answered(ms, call) == \E i \in 1..Len(ms) : ms[i].tool_call_id = Some(call)

\* the messages a turn of the host may append to the conversation ms
HostTurns(ms) ==
    {HumanMessage}
        \cup {AIUsage(u) : u \in UsageTotals}
        \cup {AIToolCall(c) : c \in {c \in CallIds :
                  /\ ~Issued(ms, c) /\ ~Answered(ms, c)
                  /\ \A d \in CallIds : d < c => (Issued(ms, d) \/ Answered(ms, d))}}
        \cup {ToolMessage(c) : c \in {c \in CallIds : Issued(ms, c) /\ ~Answered(ms, c)}}

HostAppend ==
    /\ pc = "idle"
    /\ Len(messages) < MaxLen
    /\ \E m \in HostTurns(messages) : messages' = Append(messages, m)
    /\ last' = NoCall
    /\ UNCHANGED <<args, mw, pc, frame>>

----------------------------------------------------------------------------------------------------------------------------------------
(* before_model / abefore_model *)

Returned(ret, mode, outcome, input, cutoff_index, parts, new_messages) ==
    [ret |-> ret, mode |-> mode, outcome |-> outcome, input |-> input,
     cutoff_index |-> cutoff_index,
     messages_to_summarize |-> parts.messages_to_summarize,
     preserved_messages |-> parts.preserved_messages,
     original_system |-> parts.original_system,
     new_messages |-> new_messages]

NoParts == [messages_to_summarize |-> <<>>, preserved_messages |-> <<>>,
            original_system |-> None]

\* the hook with `if cutoff_index < 0` in place of `if cutoff_index <= 0`
Decide_mut(self, state_messages) ==
    LET ms == _ensure_message_ids(state_messages)
        total_tokens == _get_current_token_usage(ms)
        should == _should_summarize(self, ms, total_tokens)
        cut == _determine_cutoff_index(should.self, ms)
    IN  IF should.res = "TypeError"
        THEN [go |-> "TypeError", self |-> should.self, messages |-> ms,
              cutoff_index |-> 0, parts |-> NoParts]
        ELSE IF should.res = "False"
        THEN [go |-> "None", self |-> should.self, messages |-> ms, cutoff_index |-> 0,
              parts |-> NoParts]
        ELSE IF cut.kind = "TypeError"
        THEN [go |-> "TypeError", self |-> CacheAfterCutoff(should.self, ms),
              messages |-> ms, cutoff_index |-> 0, parts |-> NoParts]
        ELSE IF cut.v < 0
        THEN [go |-> "None", self |-> CacheAfterCutoff(should.self, ms), messages |-> ms,
              cutoff_index |-> cut.v, parts |-> NoParts]
        ELSE [go |-> "summarize", self |-> CacheAfterCutoff(should.self, ms),
              messages |-> ms, cutoff_index |-> cut.v,
              parts |-> _partition_messages(ms, cut.v)]

\* The hook up to the summary: what it has decided and the locals it holds.
\*   go = "TypeError" a TypeError leaves the hook
\*   go = "None"      the hook returns None
\*   go = "summarize" _create_summary / _acreate_summary is called
Decide(self, state_messages) ==
    LET ms == _ensure_message_ids(state_messages)
        total_tokens == _get_current_token_usage(ms)
        should == _should_summarize(self, ms, total_tokens)
        cut == _determine_cutoff_index(should.self, ms)
    IN  IF should.res = "TypeError"
        THEN [go |-> "TypeError", self |-> should.self, messages |-> ms,
              cutoff_index |-> 0, parts |-> NoParts]
        ELSE IF should.res = "False"
        THEN [go |-> "None", self |-> should.self, messages |-> ms, cutoff_index |-> 0,
              parts |-> NoParts]
        ELSE IF cut.kind = "TypeError"
        THEN [go |-> "TypeError", self |-> CacheAfterCutoff(should.self, ms),
              messages |-> ms, cutoff_index |-> 0, parts |-> NoParts]
        ELSE IF cut.v <= 0
        THEN [go |-> "None", self |-> CacheAfterCutoff(should.self, ms), messages |-> ms,
              cutoff_index |-> cut.v, parts |-> NoParts]
        ELSE [go |-> "summarize", self |-> CacheAfterCutoff(should.self, ms),
              messages |-> ms, cutoff_index |-> cut.v,
              parts |-> _partition_messages(ms, cut.v)]

\* the hook returns without a replacement, or raises
Leave(mode, d) ==
    /\ mw' = d.self
    /\ last' = Returned(d.go, mode, "none", d.messages, d.cutoff_index, d.parts, <<>>)
    /\ UNCHANGED <<messages, pc, frame>>

\* the hook returns the replacement and the host applies it:
\* RemoveMessage(REMOVE_ALL_MESSAGES), then new_messages
Replace(mode, outcome, self, ms, cutoff_index, parts, summary) ==
    LET new_messages == NewMessages(parts.original_system, summary, parts.preserved_messages)
    IN  /\ mw' = self
        /\ last' = Returned("replace", mode, outcome, ms, cutoff_index, parts, new_messages)
        /\ messages' = new_messages

\* the summary call has ended: the hook returns the replacement, or the
\* exception the call did not catch leaves the hook
Finish(mode, outcome, self, ms, cutoff_index, parts) ==
    LET summary == SummaryAfter(outcome)
    IN  IF summary.kind = "value"
        THEN Replace(mode, outcome, self, ms, cutoff_index, parts, summary.v)
        ELSE /\ mw' = self
             /\ last' = Returned(summary.kind, mode, outcome, ms, cutoff_index, parts, <<>>)
             /\ UNCHANGED messages

\* the blocking hook: model.invoke returns or raises inside the call
before_model ==
    /\ pc = "idle"
    /\ LET d == Decide(mw, messages)
       IN  IF d.go # "summarize" THEN Leave("sync", d)
           ELSE IF d.parts.messages_to_summarize = <<>>
           THEN /\ Replace("sync", "empty", d.self, d.messages, d.cutoff_index, d.parts,
                           NoHistory)
                /\ UNCHANGED <<pc, frame>>
           ELSE /\ \E outcome \in ModelOutcomes("sync") :
                       Finish("sync", outcome, d.self, d.messages, d.cutoff_index, d.parts)
                /\ UNCHANGED <<pc, frame>>
    /\ UNCHANGED args

\* before_model as a function of the conversation and of how model.invoke ends
BlockingResult(self, state_messages, outcome) ==
    LET d == Decide(self, state_messages)
        summary == SummaryAfter(outcome)
    IN  IF d.go # "summarize" THEN [ret |-> d.go, new_messages |-> <<>>]
        ELSE IF d.parts.messages_to_summarize = <<>>
        THEN [ret |-> "replace",
              new_messages |-> NewMessages(d.parts.original_system, NoHistory,
                                           d.parts.preserved_messages)]
        ELSE IF summary.kind = "value"
        THEN [ret |-> "replace",
              new_messages |-> NewMessages(d.parts.original_system, summary.v,
                                           d.parts.preserved_messages)]
        ELSE [ret |-> summary.kind, new_messages |-> <<>>]

\* abefore_model without the `if original_system is not None` branch
abefore_model_mut ==
    /\ pc = "idle"
    /\ LET d == Decide(mw, messages)
           parts == [d.parts EXCEPT !.original_system = None]
       IN  IF d.go # "summarize" THEN Leave("async", d)
           ELSE IF d.parts.messages_to_summarize = <<>>
           THEN /\ Replace("async", "empty", d.self, d.messages, d.cutoff_index, parts,
                           NoHistory)
                /\ UNCHANGED <<pc, frame>>
           ELSE /\ mw' = d.self
                /\ frame' = [mode |-> "async", messages |-> d.messages,
                             cutoff_index |-> d.cutoff_index, parts |-> parts,
                             original_tokens |->
                                 token_counter(d.parts.messages_to_summarize),
                             formatted |-> _trim_messages_for_summary(
                                               d.self, d.parts.messages_to_summarize)]
                /\ pc' = "summarizing"
                /\ last' = NoCall
                /\ UNCHANGED messages
    /\ UNCHANGED args

\* the non-blocking hook up to `await self.model.ainvoke(...)`
abefore_model ==
    /\ pc = "idle"
    /\ LET d == Decide(mw, messages)
       IN  IF d.go # "summarize" THEN Leave("async", d)
           ELSE IF d.parts.messages_to_summarize = <<>>
           THEN /\ Replace("async", "empty", d.self, d.messages, d.cutoff_index, d.parts,
                           NoHistory)
                /\ UNCHANGED <<pc, frame>>
           ELSE /\ mw' = d.self
                /\ frame' = [mode |-> "async", messages |-> d.messages,
                             cutoff_index |-> d.cutoff_index, parts |-> d.parts,
                             original_tokens |->
                                 token_counter(d.parts.messages_to_summarize),
                             formatted |-> _trim_messages_for_summary(
                                               d.self, d.parts.messages_to_summarize)]
                /\ pc' = "summarizing"
                /\ last' = NoCall
                /\ UNCHANGED messages
    /\ UNCHANGED args

\* the awaited model.ainvoke ends and abefore_model resumes
ModelReturns ==
    /\ pc = "summarizing"
    /\ \E outcome \in ModelOutcomes(frame.mode) :
           Finish(frame.mode, outcome, mw, frame.messages, frame.cutoff_index, frame.parts)
    /\ pc' = "idle"
    /\ frame' = NoFrame
    /\ UNCHANGED args

----------------
(* Specifications *)

\* Configurations of the turn loop
RunArgs ==
    { Args(TriggerSingle(<<"messages", 4>>), <<"messages", 2>>, None, None,
           Some(_DEFAULT_TRIM_TOKEN_LIMIT), NoProfile),
      Args(TriggerSingle(<<"tokens", 9>>), <<"tokens", 4>>, None, Some(2),
           Some(3), NoProfile),
      Args(TriggerSingle(<<"fraction", 50>>), <<"fraction", 25>>, None, None,
           None, Profile(Some(16), Some(2))),
      Args(TriggerList(<<<<"messages", 4>>, <<"tokens", 9>>>>), <<"messages", 2>>, None, None,
           Some(_DEFAULT_TRIM_TOKEN_LIMIT), NotAMapping),
      Args(TriggerSingle(<<"messages", 3>>), <<"fraction", 50>>, Some(10), None,
           Some(_DEFAULT_TRIM_TOKEN_LIMIT), Profile(None, None)),
      Args(TriggerNone, <<"messages", _DEFAULT_MESSAGES_TO_KEEP>>, None, None,
           Some(_DEFAULT_TRIM_TOKEN_LIMIT), NoProfile) }

Init ==
    /\ args \in RunArgs
    /\ mw = NoInstance
    /\ messages \in {<<>>, <<HostSystem>>}
    /\ pc = "new"
    /\ frame = NoFrame
    /\ last = NoCall

Next ==
    \/ Construct
    \/ HostAppend
    \/ before_model
    \/ abefore_model
    \/ ModelReturns

Spec == Init /\ [][Next]_vars

\* Construction alone, over valid and invalid arguments
MaxTriggers == 2

ContextSizes ==
    {<<"fraction", 0>>, <<"fraction", 50>>, <<"fraction", 100>>, <<"fraction", 101>>,
     <<"tokens", 0>>, <<"tokens", 4>>, <<"messages", -1>>, <<"messages", 2>>,
     <<"bytes", 3>>}

RECURSIVE ListsUpTo(_)
ListsUpTo(n) ==
    IF n = 0 THEN {<<>>}
    ELSE ListsUpTo(n - 1) \cup
         {Append(l, c) : l \in {x \in ListsUpTo(n - 1) : Len(x) = n - 1}, c \in ContextSizes}

CtorArgs ==
    {Args(t, k, mcw, None, Some(_DEFAULT_TRIM_TOKEN_LIMIT), prof) :
        t \in {TriggerNone} \cup {TriggerSingle(c) : c \in ContextSizes}
                \cup {TriggerList(l) : l \in ListsUpTo(MaxTriggers)},
        k \in ContextSizes,
        mcw \in {None, Some(16)},
        prof \in {NoProfile, NotAMapping, Profile(None, None), Profile(Some(16), Some(2))}}

InitCtor ==
    /\ args \in CtorArgs
    /\ mw = NoInstance
    /\ messages = <<>>
    /\ pc = "new"
    /\ frame = NoFrame
    /\ last = NoCall

NextCtor == Construct

SpecCtor == InitCtor /\ [][NextCtor]_vars

\* The cutoff on conversations with one tool call answered any distance later
MaxPairLen == 8

Filler(p) == IF p % 2 = 0 THEN HumanMessage ELSE AIUsage(9)

\* n messages, the tool call at index i and its answer at index j (none if i = j)
PairConversation(n, i, j) ==
    [p \in 1..n |-> IF i = j THEN Filler(p)
                    ELSE IF p - 1 = i THEN AIToolCall(1)
                    ELSE IF p - 1 = j THEN ToolMessage(1)
                    ELSE Filler(p)]

PairConversations ==
    LET plain == {PairConversation(n, i, j) : n \in 1..MaxPairLen,
                                             i \in 0..(MaxPairLen - 1),
                                             j \in 0..(MaxPairLen - 1)}
        bodies == {PairConversation(n, ij[1], ij[2]) :
                      n \in 1..MaxPairLen,
                      ij \in {x \in (0..(MaxPairLen - 1)) \X (0..(MaxPairLen - 1)) :
                                 x[1] <= x[2]}}
        fits(c) == \A k \in 1..Len(c) :
                       /\ c[k].tool_calls # {} => \E l \in (k + 1)..Len(c) : c[l].role = "tool"
                       /\ c[k].role = "tool" => \E l \in 1..(k - 1) : c[l].tool_calls # {}
    IN  {c \in bodies : fits(c)}
            \cup {<<HostSystem>> \o c : c \in {b \in bodies : fits(b) /\ Len(b) < MaxPairLen}}

PairArgs ==
    {Args(TriggerSingle(<<"messages", 1>>), k, Some(16), Some(2), Some(3), NoProfile) :
        k \in {<<"messages", 1>>, <<"messages", 2>>, <<"messages", 4>>,
               <<"tokens", 1>>, <<"tokens", 3>>, <<"tokens", 6>>, <<"fraction", 25>>}}

\* [system, user "A", assistant(tool_call 1), tool(1, "B"), user "C", assistant "D"]
ExampleConversation ==
    <<HostSystem,
      [HumanMessage EXCEPT !.content = <<"A">>],
      AIToolCall(1),
      [ToolMessage(1) EXCEPT !.content = <<"B">>],
      [HumanMessage EXCEPT !.content = <<"C">>],
      [AIUsage(9) EXCEPT !.content = <<"D">>]>>

InitPairs ==
    /\ args \in PairArgs
    /\ mw = NoInstance
    /\ messages \in PairConversations \cup {ExampleConversation}
    /\ pc = "new"
    /\ frame = NoFrame
    /\ last = NoCall

NextPairs ==
    \/ Construct
    \/ before_model
    \/ abefore_model
    \/ ModelReturns

SpecPairs == InitPairs /\ [][NextPairs]_vars

\* The cutoff on conversations whose tool message carries the id of a call
\* issued before it or, as with a reused id or a history the host has edited,
\* after it
AnyOrderConversations ==
    LET bodies == {PairConversation(n, i, j) : n \in 1..MaxPairLen,
                                              i \in 0..(MaxPairLen - 1),
                                              j \in 0..(MaxPairLen - 1)}
        whole(c) == \A k \in 1..Len(c) :
                        /\ c[k].tool_calls # {} => \E l \in 1..Len(c) : c[l].role = "tool"
                        /\ c[k].role = "tool" => \E l \in 1..Len(c) : c[l].tool_calls # {}
    IN  {c \in bodies : whole(c)}

InitAnyOrder ==
    /\ args \in PairArgs
    /\ mw = NoInstance
    /\ messages \in AnyOrderConversations
    /\ pc = "new"
    /\ frame = NoFrame
    /\ last = NoCall

NextAnyOrder ==
    \/ Construct
    \/ before_model
    \/ abefore_model
    \/ ModelReturns

SpecAnyOrder == InitAnyOrder /\ [][NextAnyOrder]_vars

\* The text handed to the summarizer under input caps of 1, 3 and 8192 tokens
\* and without a cap
MaxTrimLen == 5

RECURSIVE TrimConversations(_)
TrimConversations(n) ==
    IF n = 0 THEN {<<>>}
    ELSE TrimConversations(n - 1) \cup
         {Append(c, m) : c \in {x \in TrimConversations(n - 1) : Len(x) = n - 1},
                         m \in {HumanMessage, AIUsage(9)}}

TrimArgs ==
    {Args(TriggerSingle(<<"messages", 1>>), <<"messages", 1>>, None, None, t, NoProfile) :
        t \in {None, Some(1), Some(3), Some(_DEFAULT_TRIM_TOKEN_LIMIT)}}

InitTrim ==
    /\ args \in TrimArgs
    /\ mw = NoInstance
    /\ messages \in TrimConversations(MaxTrimLen)
                    \cup {<<HostSystem>> \o c : c \in TrimConversations(MaxTrimLen - 1)}
    /\ pc = "new"
    /\ frame = NoFrame
    /\ last = NoCall

NextTrim ==
    \/ Construct
    \/ before_model
    \/ abefore_model
    \/ ModelReturns

SpecTrim == InitTrim /\ [][NextTrim]_vars

\* The trigger and the usage tracker on short conversations of every usage shape
MaxUsageLen == 3

UsageMessages ==
    {HumanMessage, HumanUsage(7), AIUsage(7), AIUsage(639), AIUsage(640),
     AIResponseUsage(6), AIZeroUsage(9)}

RECURSIVE UsageConversations(_)
UsageConversations(n) ==
    IF n = 0 THEN {<<>>}
    ELSE UsageConversations(n - 1) \cup
         {Append(c, m) : c \in {x \in UsageConversations(n - 1) : Len(x) = n - 1},
                         m \in UsageMessages}

TriggerArgs ==
    {Args(t[1], <<"messages", 1>>, t[2], t[3], Some(_DEFAULT_TRIM_TOKEN_LIMIT), t[4]) :
        t \in {<<TriggerSingle(<<"fraction", 80>>), None, None, Profile(Some(1000), Some(200))>>,
               <<TriggerSingle(<<"fraction", 80>>), Some(1000), None, NoProfile>>,
               <<TriggerSingle(<<"fraction", 50>>), None, None, Profile(Some(3), Some(2))>>,
               <<TriggerSingle(<<"fraction", 50>>), Some(2), Some(5), NoProfile>>,
               <<TriggerSingle(<<"tokens", 9>>), None, Some(2), NoProfile>>,
               <<TriggerSingle(<<"tokens", 2>>), None, Some(2), NoProfile>>,
               <<TriggerSingle(<<"tokens", 6>>), None, None, Profile(None, Some(2))>>,
               <<TriggerSingle(<<"tokens", 9>>), None, None, NoProfile>>,
               <<TriggerSingle(<<"messages", 2>>), None, None, NoProfile>>,
               <<TriggerList(<<<<"messages", 3>>, <<"tokens", 9>>>>), None, Some(2), NoProfile>>,
               <<TriggerList(<<<<"tokens", 9>>, <<"messages", 3>>>>), None, Some(2), NoProfile>>,
               <<TriggerList(<<<<"messages", 3>>, <<"tokens", 9>>>>), None, None, NotAMapping>>,
               <<TriggerList(<<<<"tokens", 9>>, <<"messages", 3>>>>), None, None, NotAMapping>>,
               <<TriggerList(<<>>), None, None, NoProfile>>,
               <<TriggerNone, None, None, NoProfile>>}}

InitTrigger ==
    /\ args \in TriggerArgs
    /\ mw = NoInstance
    /\ messages \in UsageConversations(MaxUsageLen)
    /\ pc = "new"
    /\ frame = NoFrame
    /\ last = NoCall

NextTrigger ==
    \/ Construct
    \/ before_model
    \/ abefore_model
    \/ ModelReturns

SpecTrigger == InitTrigger /\ [][NextTrigger]_vars

----------------------------------------------------------------------------
(* Properties of the hook's calls *)

HadSystem(ms) == ms # <<>> /\ ms[1].role = "system"
HeadLen(ms) == IF HadSystem(ms) THEN 1 ELSE 0

\* C1: if the conversation's first message has role system, a call that emits a
\* replacement chose a cutoff >= 1, took its summarize run from the positions
\* after that message only, and the message is the first one of the replacement
\* and of the conversation after it.
C1_LeadingSystemKept ==
    (last.ret = "replace" /\ HadSystem(last.input)) =>
        /\ last.cutoff_index >= 1
        /\ \E b \in 1..Len(last.input) :
               /\ last.messages_to_summarize = Slice(last.input, 1, b)
               /\ last.preserved_messages = From(last.input, b)
        /\ last.new_messages[1] = last.input[1]
        /\ messages # <<>> /\ messages[1] = last.input[1]

C1_Witness ==
    /\ last.ret = "replace"
    /\ HadSystem(last.input)
    /\ last.input[1] = HostSystem
    /\ last.messages_to_summarize # <<>>
    /\ last.preserved_messages # <<>>

\* C3: a replacement is exactly [leading system message if the input had one]
\* ++ [one synthetic system message: the marker, then the summary] ++
\* messages[cutoff:] of the input, and it is what the conversation becomes.
C3_ReplacementShape ==
    last.ret = "replace" =>
        LET h == HeadLen(last.input)
            new == last.new_messages
        IN  /\ messages = new
            /\ Len(new) = h + 1 + (Len(last.input) - last.cutoff_index)
            /\ SubSeq(new, 1, h) = SubSeq(last.input, 1, h)
            /\ new[h + 1].role = "system"
            /\ new[h + 1].content[1] = AU2_SUMMARY_PREFIX
            /\ Tail(new[h + 1].content) \in
                   {<<"summary">>, NoHistory} \cup {CompressionFailed(e) : e \in Caught}
            /\ From(new, h + 1) = From(last.input, last.cutoff_index)

C3_Witness ==
    /\ last.ret = "replace"
    /\ last.outcome = "ok"
    /\ ~HadSystem(last.input)
    /\ last.cutoff_index >= 2
    /\ Len(last.preserved_messages) >= 2

\* C5: when the summarization model call fails with an error or a timeout, the
\* hook does not raise: it emits [system?, summary, tail], the summary text
\* begins with "[Compression failed:" and the tail is messages[cutoff:], as on
\* success.
C5_FailureFallback ==
    last.outcome \in {"error", "timeout"} =>
        LET h == HeadLen(last.input)
        IN  /\ last.ret = "replace"
            /\ messages = last.new_messages
            /\ Len(messages) = h + 1 + Len(last.preserved_messages)
            /\ SubSeq(messages, 1, h) = SubSeq(last.input, 1, h)
            /\ messages[h + 1].role = "system"
            /\ messages[h + 1].content[1] = AU2_SUMMARY_PREFIX
            /\ messages[h + 1].content[2] = "[Compression failed:"
            /\ From(messages, h + 1) = From(last.input, last.cutoff_index)

C5_Witness ==
    /\ last.outcome = "timeout"
    /\ last.mode = "async"
    /\ last.ret = "replace"
    /\ HadSystem(last.input)

----------------------------------------------------------------------------
(* Properties of the trigger *)

\* max output tokens as section 4.2 resolves it: unknown counts as 0
BudgetMaxOutput(self) ==
    IF IsNone(_get_max_output(self)) THEN 0 ELSE Get(_get_max_output(self))

\* floor(x * p / 100)
FloorPct(x, p) == (x * p) \div 100

\* the conversation is below the threshold of the trigger condition cond
BelowThreshold(self, cond, ms) ==
    IF cond[1] = "messages" THEN Len(ms) < cond[2]
    ELSE IF cond[1] = "tokens"
    THEN _get_current_token_usage(ms) < cond[2] - BudgetMaxOutput(self)
    ELSE _get_current_token_usage(ms) <
             Max(1, FloorPct(Get(_get_context_length(self)) - BudgetMaxOutput(self), cond[2]))

BelowEveryThreshold(self, ms) ==
    \A i \in 1..Len(self._trigger_conditions) :
        BelowThreshold(self, self._trigger_conditions[i], ms)

\* C4: a call on a conversation that is below every configured trigger
\* threshold returns None (it neither raises nor replaces).
C4_NoOpBelowThresholds ==
    (last.ret # "none" /\ BelowEveryThreshold(mw, last.input)) => last.ret = "None"

\* C7: with max output tokens unknown the hook never raises.
C7_UnknownMaxOutputIsZero ==
    (last.ret # "none" /\ IsNone(_get_max_output(mw))) => last.ret # "TypeError"

\* C6: on the conversation a successful compaction has produced, a re-run is a
\* no-op when the conversation is below every threshold, and no compaction
\* reproduces the conversation it was given (which re-runs would repeat forever).
C6_RerunSettles ==
    (last.ret = "replace" /\ last.outcome = "ok") =>
        /\ BelowEveryThreshold(mw, _ensure_message_ids(messages)) =>
               Decide(mw, messages).go = "None"
        /\ _ensure_message_ids(messages) # last.input

\* what _should_summarize answers on the conversation ms: "True", "False" or "TypeError"
Fired(self, ms) == _should_summarize(self, ms, _get_current_token_usage(ms)).res

SoleTrigger(self, kind) ==
    Len(self._trigger_conditions) = 1 /\ self._trigger_conditions[1][1] = kind

\* the hook went on to compact (the awaited summary may have been cancelled)
Compacted == last.ret \in {"replace", "cancelled"}

\* max(1, floor((maxInputTokens - maxOutputTokens) * p / 100))
FractionThreshold(self, p) ==
    Max(1, FloorPct(Get(_get_context_length(self)) - BudgetMaxOutput(self), p))

\* C11: a Fraction(f) trigger fires exactly when the tracked total is at least
\* max(1, floor((maxInputTokens - maxOutputTokens) * f)); with f = 0.8, 1000 and
\* 200 a total of 639 gives a no-op and a total of 640 a compaction (the
\* conversations of two or more messages have a positive cutoff here).
C11_FractionTriggerThreshold ==
    (last.ret # "none" /\ SoleTrigger(mw, "fraction")) =>
        LET p == mw._trigger_conditions[1][2]
            threshold == FractionThreshold(mw, p)
            total_tokens == _get_current_token_usage(last.input)
        IN  /\ Fired(mw, last.input) = (IF total_tokens >= threshold THEN "True" ELSE "False")
            /\ total_tokens < threshold => last.ret = "None"
            /\ (total_tokens >= threshold /\ Len(last.input) >= 2) => Compacted
            /\ (p = 80 /\ _get_context_length(mw) = Some(1000)
                    /\ BudgetMaxOutput(mw) = 200 /\ Len(last.input) >= 2) =>
                   /\ total_tokens = 639 => last.ret = "None"
                   /\ total_tokens = 640 => Compacted

\* C12: a Tokens(n) trigger fires exactly when n - maxOutputTokens > 0 and the
\* tracked total is at least n - maxOutputTokens; with n <= maxOutputTokens it
\* never fires.
C12_TokensTriggerThreshold ==
    (last.ret # "none" /\ SoleTrigger(mw, "tokens")) =>
        LET n == mw._trigger_conditions[1][2]
            available == n - BudgetMaxOutput(mw)
            total_tokens == _get_current_token_usage(last.input)
        IN  /\ Fired(mw, last.input) =
                   (IF available > 0 /\ total_tokens >= available THEN "True" ELSE "False")
            /\ n <= BudgetMaxOutput(mw) => last.ret = "None"
            /\ ~(available > 0 /\ total_tokens >= available) => last.ret = "None"
            /\ (available > 0 /\ total_tokens >= available /\ Len(last.input) >= 2) =>
                   Compacted

\* the trigger condition cond matches the conversation ms
Matches(self, cond, ms) ==
    IF cond[1] = "messages" THEN Len(ms) >= cond[2]
    ELSE IF cond[1] = "tokens"
    THEN /\ cond[2] - BudgetMaxOutput(self) > 0
         /\ _get_current_token_usage(ms) >= cond[2] - BudgetMaxOutput(self)
    ELSE _get_current_token_usage(ms) >= FractionThreshold(self, cond[2])

Reversed(s) == [i \in 1..Len(s) |-> s[Len(s) + 1 - i]]

\* C13: the trigger is the OR of its conditions: it fires iff at least one of
\* them matches (MessageCount(n): the length is >= n), whatever their order,
\* and never with an empty or absent list, so that the hook then never compacts.
C13_TriggerIsOrOfConditions ==
    last.ret # "none" =>
        LET conds == mw._trigger_conditions
            any == \E i \in 1..Len(conds) : Matches(mw, conds[i], last.input)
        IN  /\ Fired(mw, last.input) = (IF any THEN "True" ELSE "False")
            /\ Fired([mw EXCEPT !._trigger_conditions = Reversed(conds)], last.input)
                   = Fired(mw, last.input)
            /\ ~any => last.ret = "None"
            /\ (any /\ Len(last.input) >= 2) => Compacted

\* C20: on the empty conversation the hook does not fail and returns no replacement.
C20_EmptyConversationIsNoOp ==
    (last.ret # "none" /\ last.input = <<>>) => last.ret = "None"

\* the total a message reports: usage_metadata's when it has one, else the one
\* in its response metadata, else 0
ReportedTotal(m) ==
    IF m.usage_metadata # None THEN m.usage_metadata[1]
    ELSE IF m.response_usage # None THEN m.response_usage[1]
    ELSE 0

\* positions (1-based) of the assistant messages that report a non-zero total
Reporting(ms) ==
    {i \in 1..Len(ms) : ms[i].role = "assistant" /\ ReportedTotal(ms[i]) # 0}

ExpectedUsage(ms) ==
    IF Reporting(ms) = {} THEN token_counter(ms)
    ELSE ReportedTotal(ms[CHOOSE i \in Reporting(ms) : \A k \in Reporting(ms) : k <= i])

\* C17: the usage tracker returns the total of the newest assistant message
\* that reports a non-zero total, whatever older messages carry, and the token
\* counter's count of the whole conversation when there is none; a Tokens
\* trigger decides on that number.
C17_NewestUsageOrCounter ==
    last.ret # "none" =>
        /\ _get_current_token_usage(last.input) = ExpectedUsage(last.input)
        /\ (SoleTrigger(mw, "tokens") /\ ~IsNone(mw.max_output_tokens)
                /\ Len(last.input) >= 2) =>
               LET available == mw._trigger_conditions[1][2] - Get(mw.max_output_tokens)
               IN  Compacted <=> (available > 0 /\ ExpectedUsage(last.input) >= available)

\* an older assistant message reports more than the newest reporting one, and
\* the newest message reports nothing
C17_Witness ==
    /\ last.ret = "replace"
    /\ Len(last.input) = 3
    /\ last.input[1] = AIUsage(640)
    /\ last.input[2] = AIUsage(7)
    /\ last.input[3] = HumanUsage(7)
    /\ SoleTrigger(mw, "tokens")
    /\ mw._trigger_conditions[1][2] = 9

----------------------------------------------------------------------------
(* Properties of construction *)

SizesOf(a) ==
    {TriggerConditions(a.trigger)[i] : i \in 1..Len(TriggerConditions(a.trigger))}
        \cup {a.keep}

BadSize(c) ==
    \/ c[1] = "fraction" /\ ~(0 < c[2] /\ c[2] <= 100)
    \/ c[1] \in {"tokens", "messages"} /\ c[2] <= 0
    \/ c[1] \notin {"fraction", "tokens", "messages"}

MaxInputKnown(a) ==
    \/ ~IsNone(a.max_context_window)
    \/ a.model.profile.kind = "mapping" /\ ~IsNone(a.model.profile.max_input_tokens)

MustFail(a) ==
    \/ \E c \in SizesOf(a) : BadSize(c)
    \/ (\E c \in SizesOf(a) : c[1] = "fraction") /\ ~MaxInputKnown(a)

\* C8: __init__ raises, and builds no instance, exactly when a trigger or keep
\* size is a fraction outside (0,1], a token or message count <= 0 or of an
\* unsupported kind, or a fraction is used and max input tokens is known
\* neither from the arguments nor from the model; otherwise it builds the
\* instance with the given trigger conditions and keep.
C8_ConstructionFailsExactly ==
    pc # "new" =>
        /\ (pc = "failed") <=> MustFail(args)
        /\ pc = "failed" => ~mw.built
        /\ pc # "failed" =>
               /\ mw.built
               /\ mw._trigger_conditions = TriggerConditions(args.trigger)
               /\ mw.keep = args.keep

C8_Witness ==
    /\ pc = "failed"
    /\ \A c \in SizesOf(args) : ~BadSize(c)
    /\ args.keep[1] = "fraction"
    /\ args.model.profile.kind = "mapping"

----------------------------------------------------------------------------
(* Properties of the cutoff *)

\* index k is within the look-around window of the cutoff c
InWindow(k, c) ==
    c - _SEARCH_RANGE_FOR_TOOL_PAIRS <= k /\ k <= c + _SEARCH_RANGE_FOR_TOOL_PAIRS

\* the tool message at index j answers a call of the assistant message at index i
Answers(ms, i, j) ==
    /\ At(ms, i).role = "assistant"
    /\ At(ms, j).role = "tool"
    /\ ~IsNone(At(ms, j).tool_call_id)
    /\ Get(At(ms, j).tool_call_id) \in At(ms, i).tool_calls

\* the cutoff c leaves every pair that lies within its window on one side
KeepsPairsTogether(ms, c) ==
    \A i, j \in 0..(Len(ms) - 1) :
        (Answers(ms, i, j) /\ InWindow(i, c) /\ InWindow(j, c)) => ((i < c) <=> (j < c))

\* C2: the cutoff _determine_cutoff_index returns, in the count-based and in
\* the token/fraction-based keep mode, never has an assistant message and a
\* tool message answering it on opposite sides when both are within 5
\* positions of it.
C2_PairsNotSeparated ==
    last.ret # "none" =>
        /\ KeepsPairsTogether(last.input, last.cutoff_index)
        /\ LET cut == _determine_cutoff_index(mw, last.input)
           IN  cut.kind = "value" => KeepsPairsTogether(last.input, cut.v)

\* the count-based walk moved the cutoff below len - k to keep a pair together
C2_Witness ==
    /\ last.ret = "replace"
    /\ mw.keep[1] = "messages"
    /\ last.cutoff_index >= 1
    /\ last.cutoff_index < Len(last.input) - mw.keep[2]
    /\ \E i, j \in 0..(Len(last.input) - 1) :
           /\ Answers(last.input, i, j)
           /\ i >= last.cutoff_index
           /\ j >= Len(last.input) - mw.keep[2]

Fits(ms, i, target) == token_counter(From(ms, i)) <= target

\* the smallest index whose suffix fits the target (len(ms) at the latest)
SmallestFit(ms, target) ==
    CHOOSE i \in 0..Len(ms) :
        Fits(ms, i, target) /\ \A k \in 0..(i - 1) : ~Fits(ms, k, target)

\* the largest safe cutoff point among 0..m
LargestSafeAtMost(ms, m) ==
    CHOOSE i \in 0..m :
        _is_safe_cutoff_point(ms, i) /\ \A k \in (i + 1)..m : ~_is_safe_cutoff_point(ms, k)

Targets(ms) == 1..(token_counter(ms) + 1)

TokenKeep(self) == self.keep[1] \in {"tokens", "fraction"}

\* C9 as stated: the token-based search returns the smallest index whose
\* suffix fits the target, and a smaller target never gives a smaller index.
C9_SmallestFittingIndex ==
    (last.ret = "replace" /\ TokenKeep(mw)) =>
        /\ last.cutoff_index = SmallestFit(last.input, TargetTokenCount(mw).v)
        /\ \A t1, t2 \in Targets(last.input) :
               t1 <= t2 => CutoffForTarget(last.input, t1) >= CutoffForTarget(last.input, t2)

\* C9 amended: the token-based search returns the largest safe cutoff point
\* that is <= min(s, len - 1), s being the smallest index whose suffix fits the
\* target; and a smaller target never gives a smaller index.  (Stated for
\* every target on each conversation the blocking hook was called on, and for
\* the configured target on each replacement.)
C9_LargestSafeBelowFit ==
    (last.mode = "sync" /\ last.outcome \notin Caught /\ last.input # <<>>) =>
        /\ \A t \in Targets(last.input) :
               CutoffForTarget(last.input, t) =
                   LargestSafeAtMost(last.input,
                                     Min(SmallestFit(last.input, t), Len(last.input) - 1))
        /\ \A t1, t2 \in Targets(last.input) :
               t1 <= t2 => CutoffForTarget(last.input, t1) >= CutoffForTarget(last.input, t2)
        /\ TokenKeep(mw) /\ last.ret = "replace" =>
               last.cutoff_index =
                   LargestSafeAtMost(last.input,
                                     Min(SmallestFit(last.input, TargetTokenCount(mw).v),
                                         Len(last.input) - 1))

\* the search has returned an index below the smallest fitting one
C9_Witness ==
    /\ last.ret = "replace"
    /\ TokenKeep(mw)
    /\ last.cutoff_index >= 1
    /\ last.cutoff_index < SmallestFit(last.input, TargetTokenCount(mw).v)
    /\ SmallestFit(last.input, TargetTokenCount(mw).v) < Len(last.input)

\* C10 as stated: with keep = ("tokens", n) the preserved tail of an applied
\* compaction counts at most n tokens.
C10_TailWithinBudget ==
    (last.ret = "replace" /\ mw.keep[1] = "tokens") =>
        token_counter(last.preserved_messages) <= mw.keep[2]

\* C10 amended: with keep = ("tokens", n) the preserved tail of an applied
\* compaction counts at most n tokens whenever the smallest index whose
\* suffix fits n is below len and is a safe cutoff point.
C10_TailWithinBudgetWhenSafe ==
    (/\ last.ret = "replace"
     /\ mw.keep[1] = "tokens"
     /\ SmallestFit(last.input, mw.keep[2]) < Len(last.input)
     /\ _is_safe_cutoff_point(last.input, SmallestFit(last.input, mw.keep[2]))) =>
        /\ token_counter(last.preserved_messages) <= mw.keep[2]
        /\ last.preserved_messages = From(last.input, SmallestFit(last.input, mw.keep[2]))

C10_Witness ==
    /\ last.ret = "replace"
    /\ mw.keep = <<"tokens", 3>>
    /\ SmallestFit(last.input, 3) < Len(last.input)
    /\ _is_safe_cutoff_point(last.input, SmallestFit(last.input, 3))
    /\ token_counter(last.preserved_messages) = 3
    /\ \E i \in 1..Len(last.input) : last.input[i].role = "tool"

----------------------------------------------------------------------------
(* Properties of the non-blocking path *)

\* C14: the step in which an awaited summary is cancelled leaves the
\* conversation as it was and returns no replacement; the conversation does
\* not change while a summary is awaited; and every step that changes it is
\* either a turn of the host or the whole replacement [system?, summary, tail]
\* of a call whose summary text has been obtained.
C14_CancellationLeavesConversation ==
    [][/\ (pc = "summarizing" /\ last'.outcome = "cancelled") =>
              /\ messages' = messages
              /\ last'.ret = "cancelled"
              /\ last'.new_messages = <<>>
       /\ pc' = "summarizing" => messages' = messages
       /\ messages' # messages =>
              \/ /\ last' = NoCall
                 /\ \E m \in HostTurns(messages) : messages' = Append(messages, m)
              \/ /\ last'.ret = "replace"
                 /\ last'.outcome \in {"ok", "error", "timeout", "empty"}
                 /\ pc' = "idle"
                 /\ messages' = last'.new_messages
                 /\ Len(messages') = HeadLen(last'.input) + 1 + Len(last'.preserved_messages)
                 /\ Len(messages'[HeadLen(last'.input) + 1].content) >= 2]_vars

C14_Witness ==
    /\ last.outcome = "cancelled"
    /\ last.ret = "cancelled"
    /\ last.mode = "async"
    /\ pc = "idle"
    /\ Len(messages) >= 3

----------------------------------------------------------------------------
(* Properties of the count-based cutoff and of the keep target *)

\* C16: with keep = MessageCount(k) and more than k messages the cutoff is the
\* largest safe index <= len - k (0 at the latest); the last k messages are in
\* the preserved tail, which has exactly k messages when len - k is safe; and
\* the example conversation with k = 2 gives the tail [user C, assistant D],
\* the summarize run [user A, assistant(tool_call), tool] and the result
\* [system, summary, user C, assistant D].
C16_CountBasedCutoff ==
    (last.ret # "none" /\ mw.keep[1] = "messages" /\ Len(last.input) > mw.keep[2]) =>
        LET k == mw.keep[2]
            n == Len(last.input)
            tail == last.preserved_messages
        IN  /\ last.cutoff_index = LargestSafeAtMost(last.input, n - k)
            /\ last.cutoff_index = 0 <=> last.ret = "None"
            /\ last.ret = "replace" =>
                   /\ Len(tail) >= k
                   /\ From(tail, Len(tail) - k) = From(last.input, n - k)
                   /\ _is_safe_cutoff_point(last.input, n - k) =>
                          (Len(tail) = k /\ last.cutoff_index = n - k)
            /\ (last.ret = "replace" /\ last.input = ExampleConversation /\ k = 2) =>
                   /\ tail = From(ExampleConversation, 4)
                   /\ last.messages_to_summarize = Slice(ExampleConversation, 1, 4)
                   /\ Len(last.new_messages) = 4
                   /\ last.new_messages[1] = HostSystem
                   /\ last.new_messages[2].content[1] = AU2_SUMMARY_PREFIX
                   /\ last.new_messages[3].content = <<"C">>
                   /\ last.new_messages[4].content = <<"D">>

C16_Witness ==
    /\ last.ret = "replace"
    /\ last.outcome = "ok"
    /\ last.input = ExampleConversation
    /\ mw.keep = <<"messages", 2>>

\* the keep target of section 4.4 as the specification resolves it
KeepTarget(self) ==
    IF self.keep[1] = "tokens" THEN self.keep[2]
    ELSE FractionThreshold(self, self.keep[2])

\* C18: with a Tokens or Fraction keep, a call on a conversation whose count by
\* the token counter is within the keep target returns None with cutoff 0,
\* also when a trigger has matched the tracked usage.
C18_FitsMeansNoOp ==
    (/\ last.ret # "none"
     /\ TokenKeep(mw)
     /\ token_counter(last.input) <= KeepTarget(mw)) =>
        /\ last.ret = "None"
        /\ last.cutoff_index = 0

\* C19 as stated: the keep target is n - maxOutputTokens for Tokens(n) and
\* max(1, floor((maxInputTokens - maxOutputTokens) * f)) for Fraction(f), and
\* it is the target the cutoff of a replacement was searched with.
ClaimedKeepTarget(self) ==
    IF self.keep[1] = "tokens" THEN self.keep[2] - BudgetMaxOutput(self)
    ELSE FractionThreshold(self, self.keep[2])

C19_KeepTargetAsTrigger ==
    (last.ret # "none" /\ TokenKeep(mw)) =>
        /\ TargetTokenCount(mw) = Value(ClaimedKeepTarget(mw))
        /\ Compacted =>
               last.cutoff_index = CutoffForTarget(last.input, ClaimedKeepTarget(mw))

\* C19 amended: the keep target is n itself for Tokens(n), with nothing taken
\* off for the output; for Fraction(f) it is
\* max(1, floor((maxInputTokens - maxOutputTokens) * f)) when max output tokens
\* is configured or reported by the model, and computing it raises when it is
\* neither; the cutoff of a replacement was searched with that target.
C19_KeepTargetUnreserved ==
    (last.ret # "none" /\ TokenKeep(mw)) =>
        /\ mw.keep[1] = "tokens" => TargetTokenCount(mw) = Value(mw.keep[2])
        /\ (mw.keep[1] = "fraction" /\ ~IsNone(_get_max_output(mw))) =>
               TargetTokenCount(mw) =
                   Value(Max(1, FloorPct(Get(_get_context_length(mw))
                                         - Get(_get_max_output(mw)), mw.keep[2])))
        /\ (mw.keep[1] = "fraction" /\ IsNone(_get_max_output(mw))) =>
               /\ TargetTokenCount(mw) = TypeError
               /\ last.ret \in {"None", "TypeError"}
               /\ (last.ret = "None" /\ last.input # <<>>) =>
                      Fired(mw, last.input) = "False"
        /\ Compacted =>
               last.cutoff_index = CutoffForTarget(last.input, TargetTokenCount(mw).v)

\* a replacement under keep = ("tokens", n) whose cutoff is not the one the
\* target n - maxOutputTokens gives
C19_Witness ==
    /\ last.ret = "replace"
    /\ mw.keep[1] = "tokens"
    /\ ~IsNone(_get_max_output(mw))
    /\ Get(_get_max_output(mw)) > 0
    /\ last.cutoff_index # CutoffForTarget(last.input, ClaimedKeepTarget(mw))

----------------------------------------------------------------------------
(* Properties of the phases of a call *)

\* C21: a call whose trigger fired and whose cutoff is 0 ends as a no-op: it
\* returns None, has partitioned nothing, has not called the model and has
\* emitted no replacement; a summary is awaited, and a replacement emitted,
\* only with a cutoff >= 1; and _partition_messages with cutoff 0 gives an
\* empty summarize run.
C21_CutoffZeroIsNoOp ==
    /\ pc \in {"new", "failed", "idle", "summarizing"}
    /\ pc = "summarizing" => (frame.cutoff_index >= 1 /\ last = NoCall)
    /\ last.ret \in {"replace", "cancelled"} => last.cutoff_index >= 1
    /\ (/\ last.ret # "none"
        /\ Fired(mw, last.input) = "True"
        /\ _determine_cutoff_index(mw, last.input) = Value(0)) =>
           /\ last.ret = "None"
           /\ last.outcome = "none"
           /\ last.messages_to_summarize = <<>>
           /\ last.preserved_messages = <<>>
           /\ last.new_messages = <<>>
           /\ pc = "idle"
    /\ last.ret # "none" =>
           _partition_messages(last.input, 0).messages_to_summarize = <<>>

\* the trigger fired on a conversation that has a leading system message
\* and the cutoff came out as 0
C21_Witness ==
    /\ last.ret = "None"
    /\ Fired(mw, last.input) = "True"
    /\ HadSystem(last.input)
    /\ Len(last.input) >= 2
    /\ _determine_cutoff_index(mw, last.input) = Value(0)

MarkerCount(ms) ==
    Cardinality({i \in 1..Len(ms) : ms[i].content[1] = AU2_SUMMARY_PREFIX})

\* C24: a replacement has no more messages than the conversation it replaces.
C24_ReplacementNotLonger ==
    last.ret = "replace" => Len(last.new_messages) <= Len(last.input)

\* C25: the conversation never holds more than one message that carries the
\* "[AU2 Context Summary]" marker, and a message that carries it is never
\* taken as the original leading system message.
C25_AtMostOneSummary ==
    /\ MarkerCount(messages) <= 1
    /\ (last.ret = "replace" /\ last.original_system # None) =>
           last.original_system[1].content[1] # AU2_SUMMARY_PREFIX

\* C26: a replacement is emitted for a non-empty summarize run only, so that
\* "No previous conversation history." is never the summary of a replacement.
C26_SummarizeRunNonEmpty ==
    last.ret = "replace" =>
        /\ last.messages_to_summarize # <<>>
        /\ Tail(last.new_messages[HeadLen(last.input) + 1].content) # NoHistory

----------------------------------------------------------------------------
(* Properties of the partition and of the search *)

\* [leading system message if any] ++ summarize run ++ preserved tail
Rejoined(parts) ==
    (IF parts.original_system = None THEN <<>> ELSE <<parts.original_system[1]>>)
        \o parts.messages_to_summarize \o parts.preserved_messages

\* C27: for every cutoff in 0..len, the leading system message (if any), the
\* summarize run and the preserved tail of _partition_messages, put end to
\* end, are the conversation; so are the parts a call has worked with.
C27_PartitionLossless ==
    last.ret # "none" =>
        /\ \A c \in 0..Len(last.input) :
               Rejoined(_partition_messages(last.input, c)) = last.input
        /\ last.ret \in {"replace", "cancelled"} =>
               Rejoined([original_system |-> last.original_system,
                         messages_to_summarize |-> last.messages_to_summarize,
                         preserved_messages |-> last.preserved_messages]) = last.input

\* a call on a conversation with a leading system message, whose partition
\* at cutoff 0 is the one of cutoff 1
C27_Witness ==
    /\ last.ret = "cancelled"
    /\ HadSystem(last.input)
    /\ Len(last.input) >= 4
    /\ _partition_messages(last.input, 0) = _partition_messages(last.input, 1)

\* C28: the cutoff _determine_cutoff_index returns on a non-empty
\* conversation is in 0..len-1, in the count mode and in the token mode, so
\* that the preserved tail of a replacement is non-empty and ends with the
\* newest message of the conversation.
C28_TailHoldsNewestMessage ==
    (last.ret # "none" /\ last.input # <<>>) =>
        /\ _determine_cutoff_index(mw, last.input).kind = "value" =>
               _determine_cutoff_index(mw, last.input).v \in 0..(Len(last.input) - 1)
        /\ last.cutoff_index \in 0..(Len(last.input) - 1)
        /\ last.ret = "replace" =>
               /\ last.preserved_messages # <<>>
               /\ last.preserved_messages[Len(last.preserved_messages)]
                      = last.input[Len(last.input)]

\* the token mode on a conversation none of whose suffixes fits the target
C28_Witness ==
    /\ last.ret = "replace"
    /\ mw.keep = <<"tokens", 1>>
    /\ Len(last.preserved_messages) = 1
    /\ token_counter(last.preserved_messages) > 1
    /\ SmallestFit(last.input, 1) = Len(last.input)

\* C30: on every conversation of one message or more and for every target,
\* the binary search is left with left >= right and with a round of its cap
\* len.bit_length() + 1 unused; and index 0 is a safe cutoff point, so that
\* the walk down from the candidate returns.
C30_SearchEndsWithinCap ==
    (last.ret # "none" /\ last.input # <<>>) =>
        /\ \A t \in Targets(last.input) :
               LET s == SearchResult(last.input, t)
               IN  s.left >= s.right /\ s.iterations >= 1
        /\ _is_safe_cutoff_point(last.input, 0)
        /\ \A c \in 0..(Len(last.input) - 1) :
               WalkDown(last.input, c) \in 0..c /\
               _is_safe_cutoff_point(last.input, WalkDown(last.input, c))

\* a search that has used len.bit_length() rounds, on a conversation whose
\* index 1 is no safe cutoff point
C30_Witness ==
    /\ last.ret = "replace"
    /\ TokenKeep(mw)
    /\ Len(last.input) >= 4
    /\ SearchResult(last.input, TargetTokenCount(mw).v).iterations = 1
    /\ ~_is_safe_cutoff_point(last.input, 1)

----------------------------------------------------------------------------
(* The tracked usage across a compaction *)

\* the newest assistant message reporting a non-zero total is in the preserved tail
NewestReportInTail ==
    /\ Reporting(last.input) # {}
    /\ \E i \in Reporting(last.input) : i > Len(last.input) - Len(last.preserved_messages)

\* a Tokens or Fraction condition of the trigger evaluates to True on ms
TokenConditionHolds(self, ms) ==
    \E i \in 1..Len(self._trigger_conditions) :
        /\ self._trigger_conditions[i][1] \in {"tokens", "fraction"}
        /\ Condition(self, self._trigger_conditions[i], _get_max_output(self), ms,
                     _get_current_token_usage(ms)) = "True"

\* C29: when the newest assistant message reporting a non-zero total is in
\* the preserved tail, the usage tracker gives the same total on the
\* replacement as on the conversation the call was given, and a Tokens or
\* Fraction condition that held on the latter makes the trigger fire on the
\* replacement too.
C29_TrackedTotalSurvivesCompaction ==
    (last.ret = "replace" /\ NewestReportInTail) =>
        /\ messages = last.new_messages
        /\ _get_current_token_usage(messages) = _get_current_token_usage(last.input)
        /\ TokenConditionHolds(mw, last.input) =>
               (TokenConditionHolds(mw, messages) /\ Fired(mw, messages) = "True")

\* a replacement the token counter counts below the threshold, on which the
\* trigger fires all the same
C29_Witness ==
    /\ last.ret = "replace"
    /\ NewestReportInTail
    /\ SoleTrigger(mw, "tokens")
    /\ TokenConditionHolds(mw, last.input)
    /\ token_counter(messages) < mw._trigger_conditions[1][2] - Get(mw.max_output_tokens)
    /\ Fired(mw, messages) = "True"

----------------------------------------------------------------------------
(* Where the safety check looks for the answers *)

\* index i is one of range(search_start, search_end) for the cutoff c
Searched(ms, i, c) ==
    /\ Max(0, c - _SEARCH_RANGE_FOR_TOOL_PAIRS) <= i
    /\ i < Min(Len(ms), c + _SEARCH_RANGE_FOR_TOOL_PAIRS)

\* C22 as stated: a cutoff c is unsafe whenever an assistant message in the
\* window around c and a tool message answering one of its call ids, standing
\* anywhere in the conversation, are on opposite sides of c.
C22_AnswersAnywhere ==
    last.ret # "none" =>
        \A c \in 0..Len(last.input) :
            (\E i, j \in 0..(Len(last.input) - 1) :
                /\ Searched(last.input, i, c)
                /\ Answers(last.input, i, j)
                /\ (i < c) # (j < c)) => ~_is_safe_cutoff_point(last.input, c)

\* C22 amended: a cutoff c is unsafe exactly when an assistant message in the
\* window around c is before c and a tool message answering one of its call
\* ids stands at c or anywhere after it, up to the end of the conversation;
\* a tool message standing before the assistant message is not looked at.
C22_AnswersAfterTheCall ==
    last.ret # "none" =>
        /\ \A c \in 0..Len(last.input) :
               ~_is_safe_cutoff_point(last.input, c) <=>
                   \E i, j \in 0..(Len(last.input) - 1) :
                       /\ Searched(last.input, i, c)
                       /\ Answers(last.input, i, j)
                       /\ i < c /\ c <= j
        /\ _is_safe_cutoff_point(last.input, last.cutoff_index)

\* a compaction whose cutoff has the tool message before it and the assistant
\* message carrying the same call id, within the window, at or after it
C22_Witness ==
    /\ last.ret = "replace"
    /\ \E i, j \in 0..(Len(last.input) - 1) :
           /\ Answers(last.input, i, j)
           /\ Searched(last.input, i, last.cutoff_index)
           /\ j < last.cutoff_index /\ last.cutoff_index <= i

----------------------------------------------------------------------------
(* The text handed to the summarizer *)

\* the last k messages of ms
Suffix(ms, k) == From(ms, Len(ms) - k)

\* the length of the longest suffix of ms counted within the cap
LongestFit(ms, cap) ==
    CHOOSE k \in 0..Len(ms) :
        /\ token_counter(Suffix(ms, k)) <= cap
        /\ \A l \in (k + 1)..Len(ms) : token_counter(Suffix(ms, l)) > cap

\* the summarize run exceeds the input cap
OverCap(self, run) ==
    /\ ~IsNone(self.trim_tokens_to_summarize)
    /\ token_counter(run) > Get(self.trim_tokens_to_summarize)

====
